---- MODULE Spec2Model ----
(***************************************************************************)
(* Verification model of the pepper-place photo browser:                    *)
(*   - useImagePreloader  (prefetch cache: windowing, single flight,        *)
(*                         cancellation)                                    *)
(*   - PhotoService       (manifest cache: memory / localStorage / fetch)   *)
(*   - App, PhotoGallery, usePhotoNavigation (position, navigation source)  *)
(* Each component has its own specification over its own variables.         *)
(***************************************************************************)
EXTENDS Integers, Sequences, FiniteSets, TLC

(***************************************************************************)
(* Bounds of the model                                                      *)
(***************************************************************************)
MaxPhotos == 2       \* largest collection length explored by the preloader
MaxWindowLen == 6    \* largest collection length for the window function
MaxWindow == 10      \* largest window size W for the window function
MaxReconciles == 3   \* number of runs of the preloading effect
MaxTicks == 3        \* number of times the clock advances
MaxGen == 2          \* number of manifest versions the pipeline publishes
MaxNavPhotos == 2    \* largest collection length explored by the navigation
MaxYearSpan == 2     \* the photos' years are FirstYear..FirstYear+MaxYearSpan
MaxMonth == 2        \* the photos' months are 1..MaxMonth
MaxTimers == 2       \* largest number of pending setTimeout callbacks
MaxJumpPhotos == 2   \* largest collection length explored by jumpToYear
MaxJumpMonth == 9    \* months 1..MaxJumpMonth of the photos jumpToYear searches
MaxJumpYearSpan == 1 \* their years are FirstYear..FirstYear+MaxJumpYearSpan
MaxEndpoints == 2    \* number of distinct config.endpoint values
MaxBuckets == 2      \* number of distinct config.bucket values

(***************************************************************************)
(* Program constants                                                        *)
(***************************************************************************)
DEFAULT_BUFFER_SIZE == 3
THUMBNAIL_BUFFER_SIZE == 10

Directions == {"forward", "backward", "null"}

(***************************************************************************)
(* JavaScript arithmetic                                                    *)
(***************************************************************************)
\* The JavaScript % operator: the result takes the sign of the dividend.
JsRem(a, n) == IF a >= 0 THEN a % n ELSE -((-a) % n)

\* Math.floor(x / 2) for a non-negative integer x.
FloorHalf(x) == x \div 2

(***************************************************************************)
(* useImagePreloader.getPreloadIndexes                                      *)
(* The array the code builds is read only as a collection of indexes, so    *)
(* it is modelled as the set of its elements.                               *)
(***************************************************************************)
NextIndexes(cur, len, n) == { JsRem(cur + i, len) : i \in 1..n }

PrevIndexes(cur, len, n) == { JsRem(cur - i + len, len) : i \in 1..n }

\* Mutant: the current index is not pushed.
GetPreloadIndexesNoCurrent(cur, len, direction, buf) ==
  IF direction = "forward"
    THEN NextIndexes(cur, len, buf) \cup PrevIndexes(cur, len, FloorHalf(buf))
  ELSE IF direction = "backward"
    THEN PrevIndexes(cur, len, buf) \cup NextIndexes(cur, len, FloorHalf(buf))
  ELSE NextIndexes(cur, len, buf) \cup PrevIndexes(cur, len, buf)

GetPreloadIndexes(cur, len, direction, buf) ==
  {cur} \cup
  (IF direction = "forward"
     THEN NextIndexes(cur, len, buf) \cup PrevIndexes(cur, len, FloorHalf(buf))
   ELSE IF direction = "backward"
     THEN PrevIndexes(cur, len, buf) \cup NextIndexes(cur, len, FloorHalf(buf))
   ELSE NextIndexes(cur, len, buf) \cup PrevIndexes(cur, len, buf))

(***************************************************************************)
(* Specification of the window function: the inputs are drawn in Init and   *)
(* ComputeWindow applies getPreloadIndexes to them.                         *)
(***************************************************************************)
VARIABLES wLen, wPos, wDir, wSize, wResult, wDone

wvars == <<wLen, wPos, wDir, wSize, wResult, wDone>>

\* Variables of useImagePreloader (described with the hook below)
VARIABLES pLen, pVideos, pBuf, pIndex, pDir, imageCache, loadingStatus,
          abortControllers, inflight, reconciles, mounted, lastOp

pvars == <<pLen, pVideos, pBuf, pIndex, pDir, imageCache, loadingStatus,
           abortControllers, inflight, reconciles, mounted, lastOp>>

\* Variables of PhotoService (described with the service below)
VARIABLES manifestCache, storedManifest, storedTimestamp, now, remoteGen,
          cacheDisabled, fetching, ticks, lastLoad, invalidated, paired

cvars == <<manifestCache, storedManifest, storedTimestamp, now, remoteGen,
           cacheDisabled, fetching, ticks, lastLoad, invalidated, paired>>

\* Variables of App, PhotoGallery and usePhotoNavigation (described below)
VARIABLES photos, currentIndex, navigationSource, currentYear, lastDirection,
          isKeyboardNavActive, timers, galleryDirty, appDirty, explicit

nvars == <<photos, currentIndex, navigationSource, currentYear, lastDirection,
           isKeyboardNavActive, timers, galleryDirty, appDirty, explicit>>

\* Variables of usePhotoNavigation.jumpToYear on its own (described below)
VARIABLES sortedPhotos, jumpIndex, yearValue, targetYear, targetMonth,
          prevIndex

jvars == <<sortedPhotos, jumpIndex, yearValue, targetYear, targetMonth,
           prevIndex>>

\* Variables of the localStorage keys of PhotoService (described with the
\* keys below)
VARIABLES kItems, kService, kMemory, kLast

kvars == <<kItems, kService, kMemory, kLast>>

vars == <<wvars, pvars, cvars, nvars, jvars, kvars>>

\* Variables a step of one component leaves alone
notWindow == <<pvars, cvars, nvars, jvars, kvars>>

notPrefetch == <<wvars, cvars, nvars, jvars, kvars>>

notCatalog == <<wvars, pvars, nvars, jvars, kvars>>

notNav == <<wvars, pvars, cvars, jvars, kvars>>

notJump == <<wvars, pvars, cvars, nvars, kvars>>

notKeys == <<wvars, pvars, cvars, nvars, jvars>>

WInit ==
  /\ wLen \in 1..MaxWindowLen
  /\ wPos \in 0..(wLen - 1)
  /\ wDir \in Directions
  /\ wSize \in 0..MaxWindow
  /\ wResult = {}
  /\ wDone = FALSE

ComputeWindow ==
  /\ ~wDone
  /\ wResult' = GetPreloadIndexes(wPos, wLen, wDir, wSize)
  /\ wDone' = TRUE
  /\ UNCHANGED <<wLen, wPos, wDir, wSize>>
  /\ UNCHANGED notWindow

WNext == ComputeWindow

\* Values of the window variables in the specifications of the other components
WIdle ==
  /\ wLen = 1
  /\ wPos = 0
  /\ wDir = "null"
  /\ wSize = 0
  /\ wResult = {}
  /\ wDone = FALSE

\* Mathematical (circular) reference sets of the claims.
AheadSet(p, len, n) == { (p + i) % len : i \in 1..n }

BehindSet(p, len, n) == { (p - i) % len : i \in 1..n }

\* C7: computeWindow(p, d, W) contains p, for every N >= 1, p in 0..N-1,
\* direction d and W >= 0.
C7_WindowContainsPosition == wDone => wPos \in wResult

C7_Witness == wDone /\ wSize = 0 /\ wResult = {wPos}

\* C8 (as claimed): the forward window is {p} with W indexes ahead and
\* floor(W/2) behind, all taken modulo N; the backward window swaps the sides.
C8_DirectionalWindowExact ==
  (wDone /\ wDir \in {"forward", "backward"}) =>
    wResult = {wPos}
      \cup (IF wDir = "forward" THEN AheadSet(wPos, wLen, wSize)
                                ELSE BehindSet(wPos, wLen, wSize))
      \cup (IF wDir = "forward" THEN BehindSet(wPos, wLen, FloorHalf(wSize))
                                ELSE AheadSet(wPos, wLen, FloorHalf(wSize)))

\* C9 (as claimed): with direction none the window is {p} with W indexes on
\* each side, all taken modulo N.
C9_SymmetricWindowExact ==
  (wDone /\ wDir = "null") =>
    wResult = {wPos} \cup AheadSet(wPos, wLen, wSize)
                     \cup BehindSet(wPos, wLen, wSize)

\* C10 (as claimed): every index of computeWindow(p, d, W) is a valid index
\* in 0..N-1, also when W is larger than N.
C10_WindowIndexesValid == wDone => wResult \subseteq 0..(wLen - 1)

(***************************************************************************)
(* useImagePreloader: state of one mounted hook                             *)
(*   imageCache        keys of imageCache.current                           *)
(*   loadingStatus     keys that loadingStatus.current maps to true         *)
(*   abortControllers  key -> id of the load attempt whose cancelFn is      *)
(*                     stored for the key (0: no entry)                     *)
(*   inflight          image loads whose network operation has not yet      *)
(*                     delivered its load/error event; cancelled is the     *)
(*                     closure variable of the attempt; the handlers of a   *)
(*                     cancelled attempt do nothing, so cancelled attempts  *)
(*                     of one key are kept as one record with id 0          *)
(*   reconciles        number of runs of the preloading effect so far       *)
(*   mounted           the component using the hook is mounted              *)
(*   lastOp            history: the handler that ran last                   *)
(***************************************************************************)
\* photo.url and photo.thumbnailUrl of the photo at an index
UrlKey(i) == 2 * i

ThumbKey(i) == 2 * i + 1

Keys == 0..(2 * MaxPhotos - 1)

\* detectMediaType(url) = "video": only main media can be video files,
\* thumbnails are always images.
IsVideo(url) == \E i \in pVideos : url = UrlKey(i)

\* The mutable maps of the hook, threaded through the calls of one handler.
Maps == [cache |-> imageCache, loading |-> loadingStatus,
         ctrl |-> abortControllers, fl |-> inflight]

\* Mutant: cancelFn forgets to set the cancelled flag of its attempt.
CancelFnNoFlag(m, url) ==
  [m EXCEPT !.loading = @ \ {url},
            !.ctrl[url] = 0]

\* cancelFn of the attempt registered for url in abortControllers
CancelFn(m, url) ==
  [m EXCEPT !.fl = { IF a.key = url /\ a.id = m.ctrl[url]
                       THEN [key |-> url, id |-> 0, cancelled |-> TRUE]
                       ELSE a : a \in @ },
            !.loading = @ \ {url},
            !.ctrl[url] = 0]

\* Identity of a new Image() for url: the first id no load of url that is
\* still in flight and not cancelled carries.
NewId(m, url) ==
  CHOOSE i \in 1..(Cardinality(m.fl) + 1) :
    /\ [key |-> url, id |-> i, cancelled |-> FALSE] \notin m.fl
    /\ \A j \in 1..(i - 1) :
         [key |-> url, id |-> j, cancelled |-> FALSE] \in m.fl

\* A preloadImage that does not look at imageCache and loadingStatus
PreloadImageNoSkip(m, url) ==
  IF IsVideo(url) THEN m
  ELSE LET m1 == IF m.ctrl[url] # 0 THEN CancelFn(m, url) ELSE m
           id == NewId(m1, url)
       IN [m1 EXCEPT !.loading = @ \cup {url},
                     !.ctrl[url] = id,
                     !.fl = @ \cup {[key |-> url, id |-> id,
                                     cancelled |-> FALSE]}]

\* preloadImage(url)
PreloadImage(m, url) ==
  IF url \in m.cache \/ url \in m.loading THEN m
  ELSE IF IsVideo(url) THEN m
  ELSE LET m1 == IF m.ctrl[url] # 0 THEN CancelFn(m, url) ELSE m
           id == NewId(m1, url)
       IN [m1 EXCEPT !.loading = @ \cup {url},
                     !.ctrl[url] = id,
                     !.fl = @ \cup {[key |-> url, id |-> id,
                                     cancelled |-> FALSE]}]

RECURSIVE PreloadAll(_, _)
\* forEach(... preloadImage(...)) over the keys of a window
PreloadAll(m, urls) ==
  IF urls = {} THEN m
  ELSE LET u == CHOOSE x \in urls : TRUE
       IN PreloadAll(PreloadImage(m, u), urls \ {u})

RECURSIVE CancelAll(_, _)
\* forEach over abortControllers calling cancelFn for the given keys
CancelAll(m, urls) ==
  IF urls = {} THEN m
  ELSE LET u == CHOOSE x \in urls : TRUE
       IN CancelAll(CancelFn(m, u), urls \ {u})

\* photos[index] is undefined for an index outside 0..length-1
ValidIndexes(idx) == idx \cap (0..(pLen - 1))

ImageUrls(cur, dir) ==
  { UrlKey(i) : i \in ValidIndexes(GetPreloadIndexes(cur, pLen, dir, pBuf)) }

ThumbnailUrls(cur, dir) ==
  { ThumbKey(i) : i \in ValidIndexes(
                    GetPreloadIndexes(cur, pLen, dir, THUMBNAIL_BUFFER_SIZE)) }

\* A urlsToLoad without the thumbnail tier
UrlsToLoadImagesOnly(cur, dir) == ImageUrls(cur, dir)

\* urlsToLoad of the preloading effect
UrlsToLoad(cur, dir) == ImageUrls(cur, dir) \cup ThumbnailUrls(cur, dir)

\* Mutant: the effect does not cancel the requests that left the window.
ReconcileMapsNoCancel(m, cur, dir) ==
  PreloadAll(PreloadAll(m, ImageUrls(cur, dir)), ThumbnailUrls(cur, dir))

\* Body of the preloading effect for a non-empty collection
ReconcileMaps(m, cur, dir) ==
  LET stale == { u \in Keys : m.ctrl[u] # 0 /\ u \notin UrlsToLoad(cur, dir) }
      m1 == CancelAll(m, stale)
  IN PreloadAll(PreloadAll(m1, ImageUrls(cur, dir)), ThumbnailUrls(cur, dir))

SetMaps(m) ==
  /\ imageCache' = m.cache
  /\ loadingStatus' = m.loading
  /\ abortControllers' = m.ctrl
  /\ inflight' = m.fl

\* Values of currentIndex: an index of the collection, 0 when it is empty
Positions(len) == IF len = 0 THEN {0} ELSE 0..(len - 1)

PInit ==
  /\ pLen \in 0..MaxPhotos
  /\ pVideos \in {{}, {0} \cap (0..(pLen - 1))}
  /\ pBuf \in {0, 1, DEFAULT_BUFFER_SIZE}
  /\ pIndex = 0
  /\ pDir = "null"
  /\ imageCache = {}
  /\ loadingStatus = {}
  /\ abortControllers = [k \in Keys |-> 0]
  /\ inflight = {}
  /\ reconciles = 0
  /\ mounted = TRUE
  /\ lastOp = "init"

\* An effect that also drops from imageCache what left the window
ReconcileEvict(cur, dir) ==
  /\ mounted
  /\ reconciles < MaxReconciles
  /\ reconciles' = reconciles + 1
  /\ pIndex' = cur
  /\ pDir' = dir
  /\ lastOp' = "reconcile"
  /\ IF pLen = 0
       THEN UNCHANGED <<imageCache, loadingStatus, abortControllers, inflight>>
       ELSE LET m == ReconcileMaps(Maps, cur, dir)
            IN SetMaps([m EXCEPT !.cache = @ \cap UrlsToLoad(cur, dir)])
  /\ UNCHANGED <<pLen, pVideos, pBuf, mounted>>
  /\ UNCHANGED notPrefetch

\* The preloading effect (reconcile) run for the props (cur, dir)
Reconcile(cur, dir) ==
  /\ mounted
  /\ reconciles < MaxReconciles
  /\ reconciles' = reconciles + 1
  /\ pIndex' = cur
  /\ pDir' = dir
  /\ lastOp' = "reconcile"
  /\ IF pLen = 0
       THEN UNCHANGED <<imageCache, loadingStatus, abortControllers, inflight>>
       ELSE SetMaps(ReconcileMaps(Maps, cur, dir))
  /\ UNCHANGED <<pLen, pVideos, pBuf, mounted>>
  /\ UNCHANGED notPrefetch

\* Handlers that take every attempt for a live one
NotCancelledAlways(a) == TRUE

\* if (!cancelled) of img.onload and img.onerror: the flag of the closure of
\* the attempt
NotCancelled(a) == ~a.cancelled

\* Mutant: img.onload commits without looking at the cancelled flag.
OnLoadNoCheck(a) ==
  /\ a \in inflight
  /\ inflight' = inflight \ {a}
  /\ lastOp' = IF a.cancelled THEN "stale_load" ELSE "load"
  /\ imageCache' = imageCache \cup {a.key}
  /\ loadingStatus' = loadingStatus \ {a.key}
  /\ abortControllers' = [abortControllers EXCEPT ![a.key] = 0]
  /\ UNCHANGED <<pLen, pVideos, pBuf, pIndex, pDir, reconciles, mounted>>
  /\ UNCHANGED notPrefetch

\* img.onload of a load attempt
OnLoad(a) ==
  /\ a \in inflight
  /\ inflight' = inflight \ {a}
  /\ lastOp' = IF a.cancelled THEN "stale_load" ELSE "load"
  /\ IF NotCancelled(a)
       THEN /\ imageCache' = imageCache \cup {a.key}
            /\ loadingStatus' = loadingStatus \ {a.key}
            /\ abortControllers' = [abortControllers EXCEPT ![a.key] = 0]
       ELSE UNCHANGED <<imageCache, loadingStatus, abortControllers>>
  /\ UNCHANGED <<pLen, pVideos, pBuf, pIndex, pDir, reconciles, mounted>>
  /\ UNCHANGED notPrefetch

\* An onerror that starts the load of the url again
OnErrorRetry(a) ==
  /\ a \in inflight
  /\ lastOp' = IF a.cancelled THEN "stale_error" ELSE "error"
  /\ inflight' = IF a.cancelled THEN inflight \ {a} ELSE inflight
  /\ UNCHANGED <<loadingStatus, abortControllers>>
  /\ UNCHANGED <<pLen, pVideos, pBuf, pIndex, pDir, imageCache, reconciles,
                 mounted>>
  /\ UNCHANGED notPrefetch

\* img.onerror of a load attempt
OnError(a) ==
  /\ a \in inflight
  /\ inflight' = inflight \ {a}
  /\ lastOp' = IF a.cancelled THEN "stale_error" ELSE "error"
  /\ IF NotCancelled(a)
       THEN /\ loadingStatus' = loadingStatus \ {a.key}
            /\ abortControllers' = [abortControllers EXCEPT ![a.key] = 0]
       ELSE UNCHANGED <<loadingStatus, abortControllers>>
  /\ UNCHANGED <<pLen, pVideos, pBuf, pIndex, pDir, imageCache, reconciles,
                 mounted>>
  /\ UNCHANGED notPrefetch

\* A cleanup that clears abortControllers without calling the cancel
\* functions
ReleaseClearOnly ==
  /\ lastOp' = "release"
  /\ mounted' = FALSE
  /\ abortControllers' = [k \in Keys |-> 0]
  /\ UNCHANGED <<imageCache, loadingStatus, inflight>>
  /\ UNCHANGED <<pLen, pVideos, pBuf, pIndex, pDir, reconciles>>
  /\ UNCHANGED notPrefetch

\* Cleanup of the hook on unmount (release)
Release ==
  /\ lastOp' = "release"
  /\ mounted' = FALSE
  /\ LET m == CancelAll(Maps, { u \in Keys : abortControllers[u] # 0 })
     IN SetMaps([m EXCEPT !.ctrl = [k \in Keys |-> 0]])
  /\ UNCHANGED <<pLen, pVideos, pBuf, pIndex, pDir, reconciles>>
  /\ UNCHANGED notPrefetch

PNext ==
  \/ \E cur \in Positions(pLen), dir \in Directions : Reconcile(cur, dir)
  \/ \E a \in inflight : OnLoad(a)
  \/ \E a \in inflight : OnError(a)
  \/ Release

\* Values of the preloader variables in the specifications of the other components
PIdle ==
  /\ pLen = 0
  /\ pVideos = {}
  /\ pBuf = DEFAULT_BUFFER_SIZE
  /\ pIndex = 0
  /\ pDir = "null"
  /\ imageCache = {}
  /\ loadingStatus = {}
  /\ abortControllers = [k \in Keys |-> 0]
  /\ inflight = {}
  /\ reconciles = 0
  /\ mounted = TRUE
  /\ lastOp = "init"

(***************************************************************************)
(* PhotoService: the manifest cache                                         *)
(*   manifestCache    this.manifestCache (NoManifest: null)                 *)
(*   storedManifest   localStorage item manifestCacheKey (NoManifest: none) *)
(*   storedTimestamp  localStorage item timestampCacheKey, a decimal string *)
(*                    kept as its sequence of digits (<<>>: no item)        *)
(*   now              Date.now() in milliseconds                            *)
(*   remoteGen        version of manifest.json the server holds             *)
(*   cacheDisabled    CACHE.DISABLED                                        *)
(*   fetching         a fetchManifest() call awaits its response            *)
(*   ticks            number of clock advances so far                       *)
(*   lastLoad         history: the path the last getManifest() call took    *)
(*                    and what it saw when it was called                    *)
(*   invalidated      history: clearCache() ran and getManifest() was not   *)
(*                    called since                                          *)
(*   paired           history: the two localStorage items were written by   *)
(*                    one call of saveManifestToCache                       *)
(* A manifest is kept as its generated_at token and the two facts the       *)
(* structural validation reads; JSON.stringify/JSON.parse preserve them.    *)
(***************************************************************************)
\* Cache duration in milliseconds (24 hours)
CACHE_DURATION == 24 * 60 * 60 * 1000

NoManifest == [gen |-> 0, photos |-> FALSE, timeline |-> FALSE]

\* A response body: generated_at token, photos is an array, timeline is an array
Body(g, hasPhotos, hasTimeline) ==
  [gen |-> g, photos |-> hasPhotos, timeline |-> hasTimeline]

\* A validation that accepts any body that is an object
InvalidManifestNoArrays(m) == m = NoManifest

\* !manifest || !Array.isArray(manifest.photos) || !Array.isArray(manifest.timeline)
InvalidManifest(m) == m = NoManifest \/ ~m.photos \/ ~m.timeline

RECURSIVE ToDecimal(_)
\* Number.prototype.toString() of a non-negative integer
ToDecimal(n) ==
  IF n < 10 THEN <<n>> ELSE Append(ToDecimal(n \div 10), n % 10)

RECURSIVE ParseInt10(_)
\* parseInt(s, 10) of a non-empty string of digits
ParseInt10(s) ==
  IF Len(s) = 1 THEN s[1]
  ELSE 10 * ParseInt10(SubSeq(s, 1, Len(s) - 1)) + s[Len(s)]

\* The localStorage items of this bucket
Store == [manifest |-> storedManifest, timestamp |-> storedTimestamp]

EmptyStore == [manifest |-> NoManifest, timestamp |-> <<>>]

\* Mutant: the expiry test never fires (operands of the subtraction swapped).
LoadManifestFromCacheNoExpiry(st, t) ==
  IF cacheDisabled THEN [manifest |-> NoManifest, store |-> st]
  ELSE IF st.timestamp = <<>> \/ st.manifest = NoManifest
    THEN [manifest |-> NoManifest, store |-> st]
  ELSE IF ParseInt10(st.timestamp) - t > CACHE_DURATION
    THEN [manifest |-> NoManifest, store |-> EmptyStore]
  ELSE IF InvalidManifest(st.manifest)
    THEN [manifest |-> NoManifest, store |-> st]
  ELSE [manifest |-> st.manifest, store |-> st]

\* loadManifestFromCache() at time t: the manifest it returns (NoManifest:
\* null) and the store it leaves
LoadManifestFromCache(st, t) ==
  IF cacheDisabled THEN [manifest |-> NoManifest, store |-> st]
  ELSE IF st.timestamp = <<>> \/ st.manifest = NoManifest
    THEN [manifest |-> NoManifest, store |-> st]
  ELSE IF t - ParseInt10(st.timestamp) > CACHE_DURATION
    THEN [manifest |-> NoManifest, store |-> EmptyStore]
  ELSE IF InvalidManifest(st.manifest)
    THEN [manifest |-> NoManifest, store |-> st]
  ELSE [manifest |-> st.manifest, store |-> st]

\* A save that writes the manifest and no timestamp
SaveManifestToCacheNoTimestamp(st, m, t, quota) ==
  IF cacheDisabled THEN st ELSE [st EXCEPT !.manifest = m]

\* saveManifestToCache(manifest) at time t; quota names the setItem call that
\* throws ("none", "manifest" or "timestamp")
SaveManifestToCache(st, m, t, quota) ==
  IF cacheDisabled THEN st
  ELSE IF quota = "manifest" THEN st
  ELSE IF quota = "timestamp" THEN [st EXCEPT !.manifest = m]
  ELSE [manifest |-> m, timestamp |-> ToDecimal(t)]

SetStore(st) ==
  /\ storedManifest' = st.manifest
  /\ storedTimestamp' = st.timestamp

\* What a getManifest() call sees when it is called
Seen ==
  [hadMemory |-> manifestCache # NoManifest,
   persisted |-> storedManifest,
   age |-> IF storedTimestamp = <<>> THEN -1
           ELSE now - ParseInt10(storedTimestamp),
   remote |-> remoteGen]

NoLoad == [path |-> "none", result |-> NoManifest, quota |-> "none",
           seen |-> [hadMemory |-> FALSE, persisted |-> NoManifest,
                     age |-> -1, remote |-> 0]]

\* A test of the in-memory manifest that never finds one
HasMemoryNever(m) == FALSE

\* if (this.manifestCache)
HasMemory(m) == m # NoManifest

\* An exception of setItem that leaves saveManifestToCache
SaveThrowsUncaught(quota) == quota # "none"

\* The catch of saveManifestToCache logs the exception of setItem: none
\* reaches fetchManifest
SaveThrows(quota) == FALSE

CInit ==
  /\ manifestCache = NoManifest
  /\ storedManifest = NoManifest
  /\ storedTimestamp = <<>>
  /\ now = 0
  /\ remoteGen = 1
  /\ cacheDisabled \in BOOLEAN
  /\ fetching = FALSE
  /\ ticks = 0
  /\ lastLoad = NoLoad
  /\ invalidated = FALSE
  /\ paired = FALSE

\* getManifest() up to its return or, on the fetch path, up to the await of
\* the response
GetManifest ==
  /\ ~fetching
  /\ IF HasMemory(manifestCache)
       THEN /\ lastLoad' = [path |-> "memory", result |-> manifestCache,
                            quota |-> "none", seen |-> Seen]
            /\ UNCHANGED <<manifestCache, storedManifest, storedTimestamp,
                           fetching>>
       ELSE LET r == LoadManifestFromCache(Store, now)
            IN /\ SetStore(r.store)
               /\ IF r.manifest # NoManifest
                    THEN /\ manifestCache' = r.manifest
                         /\ lastLoad' = [path |-> "persisted",
                                         result |-> r.manifest,
                                         quota |-> "none", seen |-> Seen]
                         /\ UNCHANGED fetching
                    ELSE /\ fetching' = TRUE
                         /\ lastLoad' = [path |-> "fetch",
                                         result |-> NoManifest,
                                         quota |-> "none", seen |-> Seen]
                         /\ UNCHANGED manifestCache
  /\ invalidated' = FALSE
  /\ paired' = IF HasMemory(manifestCache)
                  \/ LoadManifestFromCache(Store, now).store = Store
                 THEN paired ELSE FALSE
  /\ UNCHANGED <<now, remoteGen, cacheDisabled, ticks>>
  /\ UNCHANGED notCatalog

\* fetchManifest() after the response arrived with a JSON body: the
\* validation, then the memory and localStorage writes
FetchResponds(body, quota) ==
  /\ fetching
  /\ fetching' = FALSE
  /\ IF InvalidManifest(body)
       THEN /\ lastLoad' = [lastLoad EXCEPT !.path = "invalid"]
            /\ UNCHANGED <<manifestCache, storedManifest, storedTimestamp>>
       ELSE /\ manifestCache' = body
            /\ SetStore(SaveManifestToCache(Store, body, now, quota))
            /\ lastLoad' = [lastLoad EXCEPT
                             !.quota = IF cacheDisabled THEN "none" ELSE quota,
                             !.path = IF SaveThrows(quota) /\ ~cacheDisabled
                                        THEN "save" ELSE @,
                             !.result = IF SaveThrows(quota) /\ ~cacheDisabled
                                          THEN NoManifest ELSE body]
  /\ paired' = IF InvalidManifest(body) \/ cacheDisabled \/ quota = "manifest"
                 THEN paired ELSE quota = "none"
  /\ UNCHANGED <<now, remoteGen, cacheDisabled, ticks, invalidated>>
  /\ UNCHANGED notCatalog

\* fetchManifest() throws before the validation: transport failure, bad
\* status or a body that is not JSON
FetchThrows ==
  /\ fetching
  /\ fetching' = FALSE
  /\ lastLoad' = [lastLoad EXCEPT !.path = "network"]
  /\ UNCHANGED <<manifestCache, storedManifest, storedTimestamp, now,
                 remoteGen, cacheDisabled, ticks, invalidated, paired>>
  /\ UNCHANGED notCatalog

\* A clearCache that removes the manifest item and leaves the timestamp item
ClearCacheManifestOnly ==
  /\ SetStore([Store EXCEPT !.manifest = NoManifest])
  /\ manifestCache' = NoManifest
  /\ invalidated' = TRUE
  /\ paired' = FALSE
  /\ UNCHANGED <<now, remoteGen, cacheDisabled, fetching, ticks, lastLoad>>
  /\ UNCHANGED notCatalog

\* clearCache()
ClearCache ==
  /\ SetStore(EmptyStore)
  /\ manifestCache' = NoManifest
  /\ invalidated' = TRUE
  /\ paired' = FALSE
  /\ UNCHANGED <<now, remoteGen, cacheDisabled, fetching, ticks, lastLoad>>
  /\ UNCHANGED notCatalog

\* A page load: new PhotoService(config), nothing in memory, a pending fetch
\* of the previous page is gone
NewSession ==
  /\ manifestCache' = NoManifest
  /\ fetching' = FALSE
  /\ IF cacheDisabled THEN SetStore(EmptyStore)
                      ELSE UNCHANGED <<storedManifest, storedTimestamp>>
  /\ lastLoad' = NoLoad
  /\ paired' = IF cacheDisabled THEN FALSE ELSE paired
  /\ UNCHANGED <<now, remoteGen, cacheDisabled, ticks, invalidated>>
  /\ UNCHANGED notCatalog

\* Time passes
Tick(d) ==
  /\ ticks < MaxTicks
  /\ ticks' = ticks + 1
  /\ now' = now + d
  /\ UNCHANGED <<manifestCache, storedManifest, storedTimestamp, remoteGen,
                 cacheDisabled, fetching, lastLoad, invalidated, paired>>
  /\ UNCHANGED notCatalog

\* The upload pipeline replaces manifest.json on the server
Publish ==
  /\ remoteGen < MaxGen
  /\ remoteGen' = remoteGen + 1
  /\ UNCHANGED <<manifestCache, storedManifest, storedTimestamp, now,
                 cacheDisabled, fetching, ticks, lastLoad, invalidated,
                 paired>>
  /\ UNCHANGED notCatalog

CNext ==
  \/ GetManifest
  \/ \E hasPhotos \in BOOLEAN, hasTimeline \in BOOLEAN,
        quota \in {"none", "manifest", "timestamp"} :
       FetchResponds(Body(remoteGen, hasPhotos, hasTimeline), quota)
  \/ FetchThrows
  \/ ClearCache
  \/ NewSession
  \/ \E d \in {1, CACHE_DURATION - 1} : Tick(d)
  \/ Publish

\* Values of the service variables in the specifications of the other components
CIdle ==
  /\ manifestCache = NoManifest
  /\ storedManifest = NoManifest
  /\ storedTimestamp = <<>>
  /\ now = 0
  /\ remoteGen = 1
  /\ cacheDisabled = FALSE
  /\ fetching = FALSE
  /\ ticks = 0
  /\ lastLoad = NoLoad
  /\ invalidated = FALSE
  /\ paired = FALSE

(***************************************************************************)
(* App, PhotoGallery, usePhotoNavigation: position and navigation source    *)
(*   photos               the loaded collection, sorted by (year, month);   *)
(*                        the id of a photo is its index                    *)
(*   currentIndex         usePhotoNavigation state (0-based)                *)
(*   navigationSource     App state: "timeline", "keyboard" or "null"       *)
(*   currentYear          App state, the timeline value year + k/12, kept   *)
(*                        as the integer 12 * year + k                      *)
(*   lastDirection        usePhotoNavigation ref                            *)
(*   isKeyboardNavActive  usePhotoNavigation ref                            *)
(*   timers               pending setTimeout callbacks in creation order:   *)
(*                        "keyboard" (200 ms) or "timeline" (300 ms)        *)
(*   galleryDirty         the dependencies of PhotoGallery's year effect    *)
(*                        changed since it last ran                         *)
(*   appDirty             the dependencies of App's currentYear effect      *)
(*                        changed since it last ran                         *)
(*   explicit             history: the position the most recent explicit    *)
(*                        call set, whether it was made while the cooldown  *)
(*                        of another control was active, which call it was  *)
(*                        ("step", "jumpTo", "slide", "select") and where   *)
(*                        in timers the timer it started is (0 if it        *)
(*                        started none or the timer has run)                *)
(* React runs the pending effects of a render before it handles the next    *)
(* event, so handlers and timers wait for RunEffects.                       *)
(***************************************************************************)
\* Default of currentYear ("first year")
FirstYear == 2014

\* Timeline step: 1/12 of a year
MonthsPerYear == 12

NavYears == FirstYear..(FirstYear + MaxYearSpan)

NavMonths == 1..MaxMonth

\* Slider fractions k/12 the model explores
TimelineFractions == 0..MaxMonth

Coord(y, m) == [year |-> y, month |-> m]

\* (year, month) order of the manifest
CoordLeq(a, b) == a.year < b.year \/ (a.year = b.year /\ a.month <= b.month)

\* The collections: sorted sequences of photos, possibly empty
Collections ==
  UNION { { c \in [1..n -> { Coord(y, m) : y \in NavYears, m \in NavMonths }] :
              \A i \in 1..(n - 1) : CoordLeq(c[i], c[i + 1]) }
          : n \in 0..MaxNavPhotos }

\* photos[index] for a 0-based index in range
PhotoAt(ps, index) == ps[index + 1]

HasPhoto(ps, index) == index >= 0 /\ index < Len(ps)

\* photo.year + (photo.month - 1) / 12
PhotoYearValue(photo) == MonthsPerYear * photo.year + (photo.month - 1)

\* Math.floor(yearValue)
TargetYear(value) == value \div MonthsPerYear

\* The month without the "|| 1" default
TargetMonthNoDefault(value) == value % MonthsPerYear

\* Math.round((yearValue - targetYear) * 12) || 1
TargetMonth(value) ==
  IF value % MonthsPerYear = 0 THEN 1 ELSE value % MonthsPerYear

\* |a - b|
Abs(x) == IF x < 0 THEN -x ELSE x

\* findIndex: the first 0-based index among the 1-based positions whose photo
\* satisfies the test, or -1
FirstIndex(hits) ==
  IF hits # {}
    THEN (CHOOSE i \in hits : \A j \in hits : i <= j) - 1
    ELSE -1

\* Positions of the photos of a year / of a (year, month)
InYear(ps, year) == { i \in 1..Len(ps) : ps[i].year = year }

\* A match on the year alone
InMonthAnyMonth(ps, year, month) == InYear(ps, year)

InMonth(ps, year, month) ==
  { i \in 1..Len(ps) : ps[i].year = year /\ ps[i].month = month }

\* The first photo of the year, whatever its month
ClosestInYearFirst(ps, year, month) == FirstIndex(InYear(ps, year))

\* yearPhotos.reduce(...): the first photo of the year with the smallest
\* |month - targetMonth|, as the 0-based index findIndex(id) gives
ClosestInYear(ps, year, month) ==
  LET best == CHOOSE i \in InYear(ps, year) :
                \A j \in InYear(ps, year) :
                  \/ Abs(ps[i].month - month) < Abs(ps[j].month - month)
                  \/ (Abs(ps[i].month - month) = Abs(ps[j].month - month)
                      /\ i <= j)
  IN best - 1

\* jumpToYear(yearValue): the index it passes to setCurrentIndex, or -1
JumpToYearIndex(ps, value) ==
  LET ty == TargetYear(value)
      tm == TargetMonth(value)
      exact == FirstIndex(InMonth(ps, ty, tm))
  IN IF Len(ps) = 0 THEN -1
     ELSE IF exact # -1 THEN exact
     ELSE IF InYear(ps, ty) # {} THEN ClosestInYear(ps, ty, tm)
     ELSE FirstIndex(InYear(ps, ty))

\* A year effect that moves to another photo every time it runs
GalleryEffectIndexOther(ps, value, index, source) ==
  IF source = "timeline" /\ Len(ps) > 1 THEN (index + 1) % Len(ps) ELSE -1

\* The index PhotoGallery's year effect passes to setCurrentIndex, or -1
GalleryEffectIndex(ps, value, index, source) ==
  LET ty == TargetYear(value)
      tm == TargetMonth(value)
  IN IF ~(value # 0 /\ HasPhoto(ps, index) /\ source = "timeline") THEN -1
     ELSE IF value = PhotoYearValue(PhotoAt(ps, index)) THEN -1
     ELSE IF InYear(ps, ty) # {} THEN ClosestInYear(ps, ty, tm)
     ELSE FirstIndex(InYear(ps, ty))

\* A currentYear effect that never calls setCurrentYear
AppEffectYearNever(ps, index, source) == -1

\* The value App's currentYear effect passes to setCurrentYear, or -1
AppEffectYear(ps, index, source) ==
  IF source = "timeline" \/ ~HasPhoto(ps, index) THEN -1
  ELSE PhotoYearValue(PhotoAt(ps, index))

\* Slider range of the Timeline: min..max year in steps of 1/12. The periods
\* are manifest.timeline, an array of its own: with no photos it can still
\* list a period, here FirstYear.
TimelineValues(ps) ==
  IF Len(ps) = 0 THEN {MonthsPerYear * FirstYear}
  ELSE LET years == { ps[i].year : i \in 1..Len(ps) }
           lo == CHOOSE y \in years : \A z \in years : y <= z
           hi == CHOOSE y \in years : \A z \in years : y >= z
       IN { v \in { MonthsPerYear * y + k : y \in lo..hi,
                                            k \in TimelineFractions } :
              v <= MonthsPerYear * hi }

\* A render after the state changed: which effects have to run
Rerender(index, source, year) ==
  /\ galleryDirty' = (galleryDirty \/ index # currentIndex
                      \/ source # navigationSource \/ year # currentYear)
  /\ appDirty' = (appDirty \/ index # currentIndex
                  \/ source # navigationSource)

Settled == ~galleryDirty /\ ~appDirty

\* A setTimeout callback can run when no timer with an earlier deadline is
\* pending: a keyboard timer (200 ms) after the keyboard timers created
\* before it, a timeline timer (300 ms) after every timer created before it.
CanFire(i) ==
  IF timers[i] = "keyboard"
    THEN \A j \in 1..(i - 1) : timers[j] # "keyboard"
    ELSE i = 1

RemoveAt(q, i) == SubSeq(q, 1, i - 1) \o SubSeq(q, i + 1, Len(q))

\* The history record after the timer at position i has run
AfterTimer(e, i) ==
  [e EXCEPT !.timer = IF e.timer = i THEN 0
                      ELSE IF e.timer > i THEN e.timer - 1
                      ELSE e.timer]

NInit ==
  /\ photos \in Collections
  /\ currentIndex = 0
  /\ navigationSource = "null"
  /\ currentYear = IF Len(photos) = 0 THEN MonthsPerYear * FirstYear
                   ELSE PhotoYearValue(photos[1])
  /\ lastDirection = "null"
  /\ isKeyboardNavActive = FALSE
  /\ timers = <<>>
  /\ galleryDirty = FALSE
  /\ appDirty = FALSE
  /\ explicit = [pos |-> 0, conflict |-> FALSE, call |-> "none", timer |-> 0]

\* A callback that never clears the source
OnNavigationChangeNoClear(isKeyboardActive) == "keyboard"

\* onNavigationChange of App: the value it passes to setNavigationSource
OnNavigationChange(isKeyboardActive) ==
  IF isKeyboardActive THEN "keyboard" ELSE "null"

\* The setCurrentIndex updater of a step that forgets to wrap
StepIndexNoWrap(index, len, direction) ==
  IF direction = "forward" THEN index + 1 ELSE index - 1

\* The setCurrentIndex updater of nextPhoto / prevPhoto
StepIndex(index, len, direction) ==
  IF direction = "forward"
    THEN (IF index + 1 >= len THEN 0 ELSE index + 1)
    ELSE (IF index - 1 < 0 THEN len - 1 ELSE index - 1)

\* nextPhoto() / prevPhoto() from the arrow keys
Step(direction) ==
  /\ Settled
  /\ Len(photos) # 0
  /\ Len(timers) < MaxTimers
  /\ LET index == StepIndex(currentIndex, Len(photos), direction)
     IN /\ isKeyboardNavActive' = TRUE
        /\ navigationSource' = OnNavigationChange(TRUE)
        /\ lastDirection' = direction
        /\ currentIndex' = index
        /\ timers' = Append(timers, "keyboard")
        /\ Rerender(index, OnNavigationChange(TRUE), currentYear)
        /\ explicit' = [pos |-> index,
                        conflict |-> navigationSource = "timeline",
                        call |-> "step", timer |-> Len(timers) + 1]
  /\ UNCHANGED <<photos, currentYear>>
  /\ UNCHANGED notNav

\* The timer of nextPhoto/prevPhoto: setKeyboardNavigationActive(false)
KeyboardTimerFires(i) ==
  /\ Settled
  /\ i \in 1..Len(timers)
  /\ timers[i] = "keyboard"
  /\ CanFire(i)
  /\ timers' = RemoveAt(timers, i)
  /\ isKeyboardNavActive' = FALSE
  /\ navigationSource' = OnNavigationChange(FALSE)
  /\ Rerender(currentIndex, OnNavigationChange(FALSE), currentYear)
  /\ explicit' = AfterTimer(explicit, i)
  /\ UNCHANGED <<photos, currentIndex, currentYear, lastDirection>>
  /\ UNCHANGED notNav

\* The updates of handleYearChange(year): the new index jumpToYear sets
HandleYearChangeIndex(value) ==
  LET found == JumpToYearIndex(photos, value)
  IN IF found >= 0 THEN found ELSE currentIndex

\* A handleYearChange that records a direction
TimelineChangeForward(value) ==
  /\ Settled
  /\ value \in TimelineValues(photos)
  /\ Len(timers) < MaxTimers
  /\ LET index == HandleYearChangeIndex(value)
     IN /\ navigationSource' = "timeline"
        /\ currentYear' = value
        /\ currentIndex' = index
        /\ lastDirection' = "forward"
        /\ timers' = Append(timers, "timeline")
        /\ Rerender(index, "timeline", value)
        /\ explicit' = [pos |-> index,
                        conflict |-> navigationSource = "keyboard",
                        call |-> "jumpTo", timer |-> Len(timers) + 1]
  /\ UNCHANGED <<photos, isKeyboardNavActive>>
  /\ UNCHANGED notNav

\* handleYearChange(year) called by the Timeline (jumpTo)
TimelineChange(value) ==
  /\ Settled
  /\ value \in TimelineValues(photos)
  /\ Len(timers) < MaxTimers
  /\ LET index == HandleYearChangeIndex(value)
     IN /\ navigationSource' = "timeline"
        /\ currentYear' = value
        /\ currentIndex' = index
        /\ timers' = Append(timers, "timeline")
        /\ Rerender(index, "timeline", value)
        /\ explicit' = [pos |-> index,
                        conflict |-> navigationSource = "keyboard",
                        call |-> "jumpTo", timer |-> Len(timers) + 1]
  /\ UNCHANGED <<photos, lastDirection, isKeyboardNavActive>>
  /\ UNCHANGED notNav

\* The timer of handleYearChange: setNavigationSource(null)
TimelineTimerFires(i) ==
  /\ Settled
  /\ i \in 1..Len(timers)
  /\ timers[i] = "timeline"
  /\ CanFire(i)
  /\ timers' = RemoveAt(timers, i)
  /\ navigationSource' = "null"
  /\ Rerender(currentIndex, "null", currentYear)
  /\ explicit' = AfterTimer(explicit, i)
  /\ UNCHANGED <<photos, currentIndex, currentYear, lastDirection,
                 isKeyboardNavActive>>
  /\ UNCHANGED notNav

\* handleSlideChange(newIndex) of the gallery: handleYearChange for the
\* photo, then setCurrentIndex(newIndex), which is the update that stays
SlideChange(newIndex) ==
  /\ Settled
  /\ HasPhoto(photos, newIndex)
  /\ Len(timers) < MaxTimers
  /\ LET value == PhotoYearValue(PhotoAt(photos, newIndex))
     IN /\ navigationSource' = "timeline"
        /\ currentYear' = value
        /\ currentIndex' = newIndex
        /\ timers' = Append(timers, "timeline")
        /\ Rerender(newIndex, "timeline", value)
        /\ explicit' = [pos |-> newIndex,
                        conflict |-> navigationSource = "keyboard",
                        call |-> "slide", timer |-> Len(timers) + 1]
  /\ UNCHANGED <<photos, lastDirection, isKeyboardNavActive>>
  /\ UNCHANGED notNav

\* handleThumbnailClick(index) of the thumbnail bar (select)
ThumbnailClick(index) ==
  /\ Settled
  /\ HasPhoto(photos, index)
  /\ currentIndex' = index
  /\ Rerender(index, navigationSource, currentYear)
  /\ explicit' = [pos |-> index, conflict |-> navigationSource # "null",
                   call |-> "select", timer |-> 0]
  /\ UNCHANGED <<photos, navigationSource, currentYear, lastDirection,
                 isKeyboardNavActive, timers>>
  /\ UNCHANGED notNav

\* The effects of one render: PhotoGallery's year effect, then App's
\* currentYear effect, both reading the values of that render
RunEffects ==
  /\ ~Settled
  /\ LET found == IF galleryDirty
                    THEN GalleryEffectIndex(photos, currentYear, currentIndex,
                                            navigationSource)
                    ELSE -1
         year == IF appDirty
                   THEN AppEffectYear(photos, currentIndex, navigationSource)
                   ELSE -1
         index1 == IF found >= 0 THEN found ELSE currentIndex
         year1 == IF year >= 0 THEN year ELSE currentYear
     IN /\ currentIndex' = index1
        /\ currentYear' = year1
        /\ galleryDirty' = (index1 # currentIndex \/ year1 # currentYear)
        /\ appDirty' = (index1 # currentIndex)
  /\ UNCHANGED <<photos, navigationSource, lastDirection, isKeyboardNavActive,
                 timers, explicit>>
  /\ UNCHANGED notNav

\* Math.min(...years) of the timeline periods, as a year value
EarliestYear(ps) ==
  LET years == { ps[i].year : i \in 1..Len(ps) }
  IN MonthsPerYear * (CHOOSE y \in years : \A z \in years : y <= z)

\* A replacement of the collection after which no effect runs
SetPhotosKeepIndex(ps) ==
  /\ Settled
  /\ Len(ps) # 0
  /\ ps # photos
  /\ photos' = ps
  /\ galleryDirty' = TRUE
  /\ appDirty' = TRUE
  /\ explicit' = [pos |-> currentIndex, conflict |-> FALSE,
                  call |-> "replace", timer |-> 0]
  /\ UNCHANGED <<currentIndex, currentYear, navigationSource, lastDirection,
                 isKeyboardNavActive, timers>>
  /\ UNCHANGED notNav

\* setPhotos(photoData) of usePhotoData with a non-empty collection, and the
\* effects of the render that follows: usePhotoNavigation copies the photos
\* and resets an index past the end; App's load effect sets the earliest
\* year and jumps to it; App's currentYear effect still reads the
\* currentPhoto of that render, taken from the collection before
SetPhotos(ps) ==
  /\ Settled
  /\ Len(ps) # 0
  /\ ps # photos
  /\ photos' = ps
  /\ LET found == JumpToYearIndex(ps, EarliestYear(ps))
         stale == AppEffectYear(photos, currentIndex, navigationSource)
     IN /\ currentIndex' = IF found >= 0 THEN found
                           ELSE IF currentIndex >= Len(ps) THEN 0
                           ELSE currentIndex
        /\ currentYear' = IF stale >= 0 THEN stale ELSE EarliestYear(ps)
  /\ galleryDirty' = TRUE
  /\ appDirty' = TRUE
  /\ explicit' = [pos |-> currentIndex, conflict |-> FALSE,
                  call |-> "replace", timer |-> 0]
  /\ UNCHANGED <<navigationSource, lastDirection, isKeyboardNavActive, timers>>
  /\ UNCHANGED notNav

NNext ==
  \/ \E direction \in {"forward", "backward"} : Step(direction)
  \/ \E i \in 1..MaxTimers : KeyboardTimerFires(i)
  \/ \E value \in { MonthsPerYear * y + k : y \in NavYears,
                                           k \in TimelineFractions } :
       TimelineChange(value)
  \/ \E i \in 1..MaxTimers : TimelineTimerFires(i)
  \/ \E newIndex \in 0..(MaxNavPhotos - 1) : SlideChange(newIndex)
  \/ \E index \in 0..(MaxNavPhotos - 1) : ThumbnailClick(index)
  \/ RunEffects

\* Values of the navigation variables in the specifications of the other
\* components
NIdle ==
  /\ photos = <<>>
  /\ currentIndex = 0
  /\ navigationSource = "null"
  /\ currentYear = MonthsPerYear * FirstYear
  /\ lastDirection = "null"
  /\ isKeyboardNavActive = FALSE
  /\ timers = <<>>
  /\ galleryDirty = FALSE
  /\ appDirty = FALSE
  /\ explicit = [pos |-> 0, conflict |-> FALSE, call |-> "none", timer |-> 0]

(***************************************************************************)
(* usePhotoNavigation.jumpToYear as a search over the collection            *)
(*   sortedPhotos   the ref the search reads, sorted by (year, month)       *)
(*   jumpIndex      currentIndex of the hook                                *)
(*   yearValue      the argument of the last call, year + k/12, kept as     *)
(*                  [coarse |-> year, k |-> k]; coarse = 0 before any call  *)
(*   targetYear     the local const of the last call that got that far      *)
(*   targetMonth    the local const of the last call that got that far      *)
(*   prevIndex      history: currentIndex before the last call              *)
(***************************************************************************)
JumpMonths == 1..MaxJumpMonth

\* The years a caller asks for: those of the photos and one beyond each end
JumpYears == FirstYear..(FirstYear + MaxJumpYearSpan)

JumpTargetYears == (FirstYear - 1)..(FirstYear + MaxJumpYearSpan + 1)

\* k of the argument year + k/12
JumpFractions == 0..(MonthsPerYear - 1)

JumpCollections ==
  UNION { { c \in [1..n -> { Coord(y, m) : y \in JumpYears, m \in JumpMonths }] :
              \A i \in 1..(n - 1) : CoordLeq(c[i], c[i + 1]) }
          : n \in 0..MaxJumpPhotos }

NoYearValue == [coarse |-> 0, k |-> 0]

JInit ==
  /\ sortedPhotos \in JumpCollections
  /\ jumpIndex \in Positions(Len(sortedPhotos))
  /\ yearValue = NoYearValue
  /\ targetYear = 0
  /\ targetMonth = 0
  /\ prevIndex = jumpIndex

\* jumpToYear(coarse + k/12), applied once to each collection and position
JumpToYear(coarse, k) ==
  LET value == MonthsPerYear * coarse + k
      found == JumpToYearIndex(sortedPhotos, value)
  IN /\ yearValue = NoYearValue
     /\ yearValue' = [coarse |-> coarse, k |-> k]
     /\ prevIndex' = jumpIndex
     /\ IF Len(sortedPhotos) = 0
          THEN UNCHANGED <<targetYear, targetMonth, jumpIndex>>
          ELSE /\ targetYear' = TargetYear(value)
               /\ targetMonth' = TargetMonth(value)
               /\ jumpIndex' = IF found >= 0 THEN found ELSE jumpIndex
     /\ UNCHANGED sortedPhotos
     /\ UNCHANGED notJump

JNext == \E coarse \in JumpTargetYears, k \in JumpFractions : JumpToYear(coarse, k)

\* Values of the search variables in the specifications of the other
\* components
JIdle ==
  /\ sortedPhotos = <<>>
  /\ jumpIndex = 0
  /\ yearValue = NoYearValue
  /\ targetYear = 0
  /\ targetMonth = 0
  /\ prevIndex = 0

(***************************************************************************)
(* PhotoService: the localStorage keys of services for several sources      *)
(*   kItems    localStorage: key -> the source whose fetch wrote the item   *)
(*             (NoSource: no item)                                          *)
(*   kService  the config of the PhotoService of the page (NoSource: none   *)
(*             constructed yet)                                             *)
(*   kMemory   this.manifestCache of that service, as the source whose      *)
(*             manifest it holds (NoSource: null)                           *)
(*   kLast     history: the last call and the source whose manifest it      *)
(*             returned                                                     *)
(***************************************************************************)
\* The MinioConfig values: endpoints and buckets are numbered
Sources == [endpoint : 1..MaxEndpoints, bucket : 1..MaxBuckets]

NoSource == [endpoint |-> 0, bucket |-> 0]

\* `${CACHE.KEY_PREFIX.MANIFEST}${this.bucket}`
ManifestCacheKey(s) == <<"photos_manifest_", s.bucket>>

\* `${CACHE.KEY_PREFIX.TIMESTAMP}${this.bucket}`
TimestampCacheKey(s) == <<"photos_manifest_timestamp_", s.bucket>>

StorageKeys ==
  {ManifestCacheKey(s) : s \in Sources} \cup {TimestampCacheKey(s) : s \in Sources}

NoCall == [op |-> "none", got |-> NoSource]

KInit ==
  /\ kItems = [k \in StorageKeys |-> NoSource]
  /\ kService = NoSource
  /\ kMemory = NoSource
  /\ kLast = NoCall

\* new PhotoService(config) for source s, with caching enabled
NewServiceOf(s) ==
  /\ kService' = s
  /\ kMemory' = NoSource
  /\ kLast' = [op |-> "new", got |-> NoSource]
  /\ UNCHANGED kItems
  /\ UNCHANGED notKeys

\* getManifest() of the service whose fetch, if one is needed, succeeds and
\* saves: memory, else the two items of its keys, else the manifest of its
\* own baseUrl
GetManifestOfService ==
  /\ kService # NoSource
  /\ IF kMemory # NoSource
       THEN /\ kLast' = [op |-> "memory", got |-> kMemory]
            /\ UNCHANGED <<kItems, kMemory>>
       ELSE IF /\ kItems[TimestampCacheKey(kService)] # NoSource
               /\ kItems[ManifestCacheKey(kService)] # NoSource
         THEN /\ kLast' = [op |-> "persisted",
                           got |-> kItems[ManifestCacheKey(kService)]]
              /\ kMemory' = kItems[ManifestCacheKey(kService)]
              /\ UNCHANGED kItems
         ELSE /\ kLast' = [op |-> "fetch", got |-> kService]
              /\ kMemory' = kService
              /\ kItems' = [kItems EXCEPT
                              ![ManifestCacheKey(kService)] = kService,
                              ![TimestampCacheKey(kService)] = kService]
  /\ UNCHANGED kService
  /\ UNCHANGED notKeys

\* clearCache() of the service
ClearCacheOfService ==
  /\ kService # NoSource
  /\ kItems' = [kItems EXCEPT ![ManifestCacheKey(kService)] = NoSource,
                              ![TimestampCacheKey(kService)] = NoSource]
  /\ kMemory' = NoSource
  /\ kLast' = [op |-> "clear", got |-> NoSource]
  /\ UNCHANGED kService
  /\ UNCHANGED notKeys

KNext ==
  \/ \E s \in Sources : NewServiceOf(s)
  \/ GetManifestOfService
  \/ ClearCacheOfService

\* Values of the key variables in the specifications of the other components
KIdle ==
  /\ kItems = [k \in StorageKeys |-> NoSource]
  /\ kService = NoSource
  /\ kMemory = NoSource
  /\ kLast = NoCall

(***************************************************************************)
(* Specifications                                                           *)
(***************************************************************************)
InitWindow == WInit /\ PIdle /\ CIdle /\ NIdle /\ JIdle /\ KIdle

SpecWindow == InitWindow /\ [][WNext]_vars

InitPrefetch == PInit /\ WIdle /\ CIdle /\ NIdle /\ JIdle /\ KIdle

SpecPrefetch == InitPrefetch /\ [][PNext]_vars

InitCatalog == CInit /\ WIdle /\ PIdle /\ NIdle /\ JIdle /\ KIdle

SpecCatalog == InitCatalog /\ [][CNext]_vars

InitNav == NInit /\ WIdle /\ PIdle /\ CIdle /\ JIdle /\ KIdle

SpecNav == InitNav /\ [][NNext]_vars

\* The navigation with its timers and effects eventually running, on the
\* collections whose photos are all of month 1
LiveCollections ==
  { c \in Collections : \A i \in 1..Len(c) : c[i].month = 1 }

InitNavLive == InitNav /\ photos \in LiveCollections

\* The navigation with the collection replaced while the page is open
InitReplace == InitNav /\ photos \in LiveCollections

RNext ==
  \/ NNext
  \/ \E ps \in LiveCollections : SetPhotos(ps)

SpecReplace == InitReplace /\ [][RNext]_vars

SpecNavLive ==
  /\ InitNavLive
  /\ [][NNext]_vars
  /\ WF_vars(\E i \in 1..MaxTimers : KeyboardTimerFires(i))
  /\ WF_vars(\E i \in 1..MaxTimers : TimelineTimerFires(i))
  /\ WF_vars(RunEffects)

(***************************************************************************)
(* PhotoGallery: the position of usePhotoNavigation feeding the preloader    *)
(* The gallery renders with currentIndex and runs the preloading effect of   *)
(* useImagePreloader for it before the next key press is handled.            *)
(***************************************************************************)
\* The navigationDirection prop PhotoGallery gives useImagePreloader
NavigationDirectionProp == "null"

\* The preloading effect has to run: on mount and when currentIndex changed
PreloadPending == reconciles = 0 \/ pIndex # currentIndex

\* The dates of the photos play no part here: one collection per length
GalleryCollections ==
  { c \in Collections : \A i \in 1..Len(c) : c[i] = Coord(FirstYear, 1) }

InitGallery ==
  /\ NInit
  /\ photos \in GalleryCollections
  /\ Len(photos) \in 1..MaxPhotos
  /\ PInit
  /\ pLen = Len(photos)
  /\ pVideos = {}
  /\ pBuf = DEFAULT_BUFFER_SIZE
  /\ WIdle /\ CIdle /\ JIdle /\ KIdle

\* An arrow key pressed in the gallery
GalleryStep(direction) == ~PreloadPending /\ Step(direction)

\* The preloading effect for the rendered position
GalleryReconcile ==
  /\ PreloadPending
  /\ pLen = Len(photos)
  /\ Reconcile(currentIndex, NavigationDirectionProp)

GNext ==
  \/ \E direction \in {"forward", "backward"} : GalleryStep(direction)
  \/ \E i \in 1..MaxTimers : KeyboardTimerFires(i)
  \/ RunEffects
  \/ GalleryReconcile
  \/ \E a \in inflight : OnLoad(a)
  \/ \E a \in inflight : OnError(a)

SpecGallery == InitGallery /\ [][GNext]_vars

InitJump == JInit /\ WIdle /\ PIdle /\ CIdle /\ NIdle /\ KIdle

InitKeys == KInit /\ WIdle /\ PIdle /\ CIdle /\ NIdle /\ JIdle

SpecKeys == InitKeys /\ [][KNext]_vars

SpecJump == InitJump /\ [][JNext]_vars

(***************************************************************************)
(* Properties of the prefetch cache (SpecPrefetch)                          *)
(***************************************************************************)
\* Keys with a pending entry
PendingKeys == loadingStatus \cup { k \in Keys : abortControllers[k] # 0 }

\* Load attempts of a key that are in flight and not cancelled
LiveAttempts(k) == { a \in inflight : a.key = k /\ ~a.cancelled }

\* Union of the desired key sets of the two tiers (empty for an empty
\* collection)
DesiredKeys == IF pLen = 0 THEN {} ELSE UrlsToLoad(pIndex, pDir)

\* C1: once a load attempt has been cancelled, the delivery of its load or
\* error event never makes its key ready, even when the network operation
\* completed successfully.
C1_CancelledNeverCommits ==
  [][\A a \in inflight :
       (a.cancelled /\ a \notin inflight') =>
         (a.key \in imageCache' => a.key \in imageCache)]_vars

C1_Witness == lastOp = "stale_load" /\ imageCache = {}

\* C2: immediately after every reconcile(position, direction), no key outside
\* the union of the desired sets of the two tiers is still pending.
C2_CancellationComplete ==
  lastOp = "reconcile" => PendingKeys \subseteq DesiredKeys

C2_Witness ==
  /\ lastOp = "reconcile"
  /\ \E a \in inflight : a.cancelled /\ a.key \notin DesiredKeys
  /\ PendingKeys # {}

\* C3: there are never two live (non-cancelled) in-flight loads for the same
\* key, and a pending key has exactly one.
C3_SingleFlightPerKey ==
  \A k \in Keys :
    /\ Cardinality(LiveAttempts(k)) <= 1
    /\ k \in loadingStatus => Cardinality(LiveAttempts(k)) = 1

C3_Witness ==
  \E k \in Keys :
    /\ [key |-> k, id |-> 0, cancelled |-> TRUE] \in inflight
    /\ LiveAttempts(k) # {}

(***************************************************************************)
(* Properties of the manifest cache (SpecCatalog)                           *)
(***************************************************************************)
\* The last getManifest() call found no snapshot in memory and a persisted
\* snapshot with a timestamp
SawPersisted ==
  /\ lastLoad.path # "none"
  /\ ~lastLoad.seen.hadMemory
  /\ lastLoad.seen.persisted # NoManifest
  /\ lastLoad.seen.age >= 0

\* C5 (as claimed): with no in-memory snapshot and a persisted snapshot
\* younger than the freshness duration, load() returns the persisted snapshot
\* without a full fetch when its generation token equals the remote one, and
\* performs a full fetch when the tokens differ.
C5_RevalidatesByToken ==
  (SawPersisted /\ lastLoad.seen.age < CACHE_DURATION) =>
    IF lastLoad.seen.persisted.gen = lastLoad.seen.remote
      THEN lastLoad.path = "persisted"
           /\ lastLoad.result = lastLoad.seen.persisted
      ELSE lastLoad.path \in {"fetch", "network", "invalid"}

\* C6 (as claimed): with no in-memory snapshot and a persisted entry of age
\* greater than or equal to 24h, load() performs a full fetch.
C6_NeverAdoptsAtOrPastDuration ==
  (SawPersisted /\ lastLoad.seen.age >= CACHE_DURATION) =>
    lastLoad.path \in {"fetch", "network", "invalid"}

\* C6 (amended): with no in-memory snapshot and a persisted entry of age
\* strictly greater than 24h, load() performs a full fetch.
C6_NeverAdoptsPastDuration ==
  (SawPersisted /\ lastLoad.seen.age > CACHE_DURATION) =>
    lastLoad.path \in {"fetch", "network", "invalid"}

C6_Witness ==
  /\ SawPersisted
  /\ lastLoad.seen.age > CACHE_DURATION
  /\ lastLoad.path = "fetch"
  /\ lastLoad.result # NoManifest

(***************************************************************************)
(* Properties of the navigation (SpecNav)                                   *)
(***************************************************************************)
\* C4 (as claimed): after an explicit step, jumpTo or select made while the
\* cooldown of another control is active, once all reactive updates have run
\* the position is the one that explicit call set.
C4_ExplicitPositionSurvives ==
  (explicit.conflict /\ Settled) => currentIndex = explicit.pos

\* C16 (as claimed): jumpTo and select on an empty collection change no part
\* of the navigation state (position, direction, source tag, cooldown).
C16_EmptyCollectionNoOps ==
  Len(photos) = 0 =>
    /\ currentIndex = 0
    /\ lastDirection = "null"
    /\ navigationSource = "null"
    /\ timers = <<>>

\* A step of the model in which an explicit call is made: calls wait for the
\* effects and, unlike a timer callback, remove no timer
CallStep == Settled /\ Len(timers') >= Len(timers)

\* The source tag of each call: the arrow keys tag "keyboard", Timeline and
\* gallery slide tag "timeline"; no value of navigationSource stands for the
\* thumbnail bar
TagOf(call) ==
  CASE call = "step" -> "keyboard"
    [] call \in {"jumpTo", "slide"} -> "timeline"
    [] OTHER -> "select"

\* C17 (as claimed): every navigation call records the source tag of its
\* control and starts the cooldown.
C17_EveryCallTagsItsSource ==
  [][CallStep =>
       /\ navigationSource' = TagOf(explicit'.call)
       /\ Len(timers') = Len(timers) + 1]_vars

\* C18 (as claimed): while the cooldown started by the most recent explicit
\* call has not elapsed the source tag stays set; a timer left over from an
\* earlier call never clears it.
C18_CooldownNotReleasedEarly ==
  explicit.timer # 0 => navigationSource = TagOf(explicit.call)

\* C19: after the last explicit call, provided timers eventually fire, the
\* source tag is eventually cleared and stays cleared.
C19_EventuallyIdle ==
  <>[][~CallStep]_vars => <>[](navigationSource = "null")

\* Calls were made, every timer has run and the tag is cleared
C19_Witness ==
  /\ explicit.call \in {"step", "jumpTo", "slide"}
  /\ timers = <<>>
  /\ Settled
  /\ navigationSource = "null"

\* C20 (as claimed): after a step forward or backward the next reconcile
\* computes the windows with that direction, not with direction none.
C20_ReconcileUsesStepDirection ==
  (/\ explicit.call = "step"
   /\ Len(photos) >= 2
   /\ ~PreloadPending) => pDir = lastDirection

Jumped == yearValue # NoYearValue /\ Len(sortedPhotos) > 0

\* The photo the position points at after the call
JumpedTo == sortedPhotos[jumpIndex + 1]

\* C12 (as claimed): a jumpTo whose coarse unit is absent from the collection
\* moves the position to the item with the nearest coarse unit, the earliest
\* index among ties.
C12_AbsentYearSelectsNearest ==
  (Jumped /\ \A i \in 1..Len(sortedPhotos) :
               sortedPhotos[i].year # yearValue.coarse) =>
    \A i \in 1..Len(sortedPhotos) :
      \/ Abs(JumpedTo.year - yearValue.coarse)
           < Abs(sortedPhotos[i].year - yearValue.coarse)
      \/ /\ Abs(JumpedTo.year - yearValue.coarse)
             = Abs(sortedPhotos[i].year - yearValue.coarse)
         /\ jumpIndex + 1 <= i

\* C13: with no exact (coarse, fine) match but some item of the target coarse
\* unit, jumpTo selects an item of that coarse unit minimizing
\* |fine - targetFine|.
C13_ClosestMonthInYear ==
  (/\ Jumped
   /\ \E i \in 1..Len(sortedPhotos) : sortedPhotos[i].year = targetYear
   /\ \A i \in 1..Len(sortedPhotos) :
        ~(sortedPhotos[i].year = targetYear
          /\ sortedPhotos[i].month = targetMonth)) =>
    /\ JumpedTo.year = targetYear
    /\ \A i \in 1..Len(sortedPhotos) :
         sortedPhotos[i].year = targetYear =>
           Abs(JumpedTo.month - targetMonth)
             <= Abs(sortedPhotos[i].month - targetMonth)

\* Items at months 3 and 9 of one year, jumpTo(year + 7/12) from the first:
\* the position is at month 9
C13_Witness ==
  /\ Jumped
  /\ Len(sortedPhotos) = 2
  /\ sortedPhotos[1] = Coord(yearValue.coarse, 3)
  /\ sortedPhotos[2] = Coord(yearValue.coarse, 9)
  /\ yearValue.k = 7
  /\ prevIndex = 0
  /\ jumpIndex = 1

\* C14: when an item has exactly the decomposed target (coarse, fine), jumpTo
\* moves the position to an item with those coordinates, whatever the
\* position was before.
C14_ExactMatchSelected ==
  (Jumped /\ \E i \in 1..Len(sortedPhotos) :
               /\ sortedPhotos[i].year = targetYear
               /\ sortedPhotos[i].month = targetMonth) =>
    JumpedTo.year = targetYear /\ JumpedTo.month = targetMonth

\* The exact match is not the first item of its year and the position was
\* elsewhere before the call
C14_Witness ==
  /\ Jumped
  /\ JumpedTo.year = targetYear
  /\ JumpedTo.month = targetMonth
  /\ prevIndex # jumpIndex
  /\ jumpIndex >= 1
  /\ sortedPhotos[jumpIndex].year = targetYear
  /\ sortedPhotos[jumpIndex].month # targetMonth

\* C15: a target coarse + k/12 with k in 0..11 is decomposed into the coarse
\* unit and the fine sub-unit k, an exact-zero fraction giving sub-unit 1.
C15_Decomposition ==
  Jumped =>
    /\ targetYear = yearValue.coarse
    /\ targetMonth = IF yearValue.k >= 1 THEN yearValue.k ELSE 1

\* Both cases of the decomposition: a zero fraction and the largest k
C15_Witness ==
  /\ Jumped
  /\ \/ yearValue.k = 0 /\ targetMonth = 1
     \/ yearValue.k = MonthsPerYear - 1 /\ targetMonth = MonthsPerYear - 1

(***************************************************************************)
(* Properties of the manifest cache, continued (SpecCatalog)                *)
(***************************************************************************)
\* A step in which getManifest() is called
CallsLoad == ~fetching /\ lastLoad' # lastLoad /\ lastLoad'.path # "none"

\* A step in which the response of the full fetch arrives and is accepted
FetchSucceeds ==
  fetching /\ ~fetching' /\ lastLoad'.path = "fetch"
  /\ lastLoad'.result # NoManifest

\* C21: with an in-memory snapshot, load() returns that snapshot, issues no
\* remote request and leaves the persisted store alone.
C21_MemoryHitTouchesNothing ==
  [][(CallsLoad /\ manifestCache # NoManifest) =>
       /\ lastLoad'.path = "memory"
       /\ lastLoad'.result = manifestCache
       /\ ~fetching'
       /\ UNCHANGED <<manifestCache, storedManifest, storedTimestamp>>]_vars

\* The snapshot in memory was returned although the persisted entry was out
\* of date and the server held a newer manifest
C21_Witness ==
  /\ lastLoad.path = "memory"
  /\ lastLoad.seen.age > CACHE_DURATION
  /\ lastLoad.seen.remote # lastLoad.result.gen

\* C22 (as claimed): after invalidate() the next load() performs a full fetch,
\* whatever was cached before.
C22_InvalidateForcesFetch ==
  [][(invalidated /\ ~invalidated') =>
       (lastLoad'.path = "fetch" /\ fetching')]_vars

\* A load() that was awaiting the response ends, in a return or a failure
FetchEnds == fetching /\ ~fetching' /\ lastLoad'.path # "none"

\* C23: when the fetch fails in transport or the response fails validation,
\* load() fails with no Collection, and memory and the persisted store keep
\* what they held; a load() that does return from a fetch returns a manifest
\* with both of its lists.
C23_FailedFetchAdoptsNothing ==
  [][FetchEnds =>
       IF lastLoad'.path \in {"network", "invalid"}
         THEN /\ lastLoad'.result = NoManifest
              /\ UNCHANGED <<manifestCache, storedManifest, storedTimestamp>>
         ELSE /\ lastLoad'.result.photos /\ lastLoad'.result.timeline
              /\ manifestCache'.photos /\ manifestCache'.timeline]_vars

C23_Witness ==
  /\ lastLoad.path = "invalid"
  /\ lastLoad.result = NoManifest
  /\ manifestCache = NoManifest
  /\ ~fetching

\* C24: when a write to localStorage fails during an otherwise successful
\* fetch, load() still returns the fetched manifest and memory holds it, so
\* the following load() of the session returns it from memory.
C24_SaveFailureSwallowed ==
  [][(FetchEnds /\ lastLoad'.quota # "none"
        /\ lastLoad'.path \notin {"network", "invalid"}) =>
       /\ lastLoad'.path = "fetch"
       /\ lastLoad'.result # NoManifest
       /\ manifestCache' = lastLoad'.result
       /\ HasMemory(manifestCache')]_vars

C24_Witness ==
  /\ lastLoad.path = "fetch"
  /\ lastLoad.quota = "manifest"
  /\ ~fetching
  /\ manifestCache = lastLoad.result
  /\ manifestCache # NoManifest
  /\ storedManifest = NoManifest

\* A load() with nothing in memory and a persisted entry within the duration
FreshSessionLoad ==
  /\ CallsLoad
  /\ ~HasMemory(manifestCache)
  /\ storedManifest # NoManifest
  /\ storedTimestamp # <<>>
  /\ now - ParseInt10(storedTimestamp) <= CACHE_DURATION

ReconcileStep == reconciles' = reconciles + 1

\* The entry of a key is the same before and after the step
SameEntry(u) ==
  /\ (u \in imageCache') = (u \in imageCache)
  /\ (u \in loadingStatus') = (u \in loadingStatus)
  /\ abortControllers'[u] = abortControllers[u]
  /\ {a \in inflight' : a.key = u} = {a \in inflight : a.key = u}

\* C26: preloadImage for a key that is already loaded or loading changes
\* nothing, alone and inside a run of the effect: no load starts, none is
\* cancelled and the entry of the key stays as it was.
C26_RequestOnPresentKeyIsNoOp ==
  [][/\ \A u \in Keys :
          (u \in imageCache \/ u \in loadingStatus) =>
            PreloadImage(Maps, u) = Maps
     /\ (ReconcileStep /\ pLen > 0) =>
          \A u \in UrlsToLoad(pIndex', pDir') :
            (u \in imageCache \/ u \in loadingStatus) => SameEntry(u)]_vars

C26_Witness ==
  /\ pLen > 0
  /\ lastOp = "reconcile"
  /\ reconciles >= 2
  /\ \E u \in UrlsToLoad(pIndex, pDir) : u \in imageCache
  /\ \E u \in UrlsToLoad(pIndex, pDir) :
       /\ u \in loadingStatus
       /\ [key |-> u, id |-> 0, cancelled |-> TRUE] \notin inflight

\* C30: a run of the effect leaves a load alone that is still wanted: a key
\* that is loading before the run and is in the window of either tier stays
\* loading with the same attempt in flight, not cancelled and not started
\* again.
C30_WantedLoadsNotRestarted ==
  [][(ReconcileStep /\ pLen > 0) =>
       \A u \in ImageUrls(pIndex', pDir') \cup ThumbnailUrls(pIndex', pDir') :
         u \in loadingStatus =>
           /\ u \in loadingStatus'
           /\ abortControllers[u] # 0
           /\ abortControllers'[u] = abortControllers[u]
           /\ [key |-> u, id |-> abortControllers[u], cancelled |-> FALSE]
                \in (inflight \cap inflight')
           /\ {a \in inflight' : a.key = u} = {a \in inflight : a.key = u}]_vars

C30_Witness ==
  /\ pLen = 2
  /\ pBuf = 0
  /\ reconciles = 2
  /\ lastOp = "reconcile"
  /\ pIndex = 1
  /\ [key |-> UrlKey(0), id |-> 0, cancelled |-> TRUE] \in inflight
  /\ {ThumbKey(0), ThumbKey(1), UrlKey(1)} \subseteq loadingStatus
  /\ imageCache = {}
  /\ \A u \in {ThumbKey(0), ThumbKey(1)} :
       [key |-> u, id |-> 0, cancelled |-> TRUE] \notin inflight

\* C27: the cleanup cancels every loading entry: once it has run no key is
\* loading, no cancel function is registered and every attempt still in
\* flight is cancelled; from then on no load is committed to imageCache, and
\* a second run of the cleanup changes none of the maps.
C27_ReleaseCancelsAll ==
  [][/\ ~mounted' =>
          /\ loadingStatus' = {}
          /\ \A u \in Keys : abortControllers'[u] = 0
          /\ \A a \in inflight' : a.cancelled
     /\ ~mounted =>
          /\ UNCHANGED <<imageCache, loadingStatus, abortControllers>>
          /\ inflight' \subseteq inflight
          /\ lastOp' = "release" => UNCHANGED inflight]_vars

C27_Witness ==
  /\ ~mounted
  /\ pLen = 1
  /\ lastOp = "stale_load"
  /\ UrlKey(0) \notin imageCache
  /\ ThumbKey(0) \in imageCache
  /\ inflight = {}

\* The keys with an attempt in flight that is not cancelled
Attempted(fl) == {a.key : a \in {b \in fl : ~b.cancelled}}

\* C28: when the load of a key fails, the key is not in imageCache, it is no
\* longer loading and no attempt for it is in flight; the other maps are as
\* before, and a key gets a new attempt only in a run of the effect.
C28_FailedLoadNotRetried ==
  [][/\ (lastOp' = "error" /\ inflight' # inflight) =>
          \A a \in inflight \ inflight' :
            /\ ~a.cancelled
            /\ a.key \notin imageCache'
            /\ a.key \notin loadingStatus'
            /\ abortControllers'[a.key] = 0
            /\ a.key \notin Attempted(inflight')
            /\ imageCache' = imageCache
            /\ inflight' = inflight \ {a}
     /\ (Attempted(inflight') \ Attempted(inflight) # {}) => ReconcileStep
     /\ (lastOp' = "error" /\ lastOp # "error") => inflight' # inflight]_vars

C28_Witness ==
  /\ lastOp = "error"
  /\ pLen = 1
  /\ mounted
  /\ UrlKey(0) \notin imageCache
  /\ UrlKey(0) \notin loadingStatus
  /\ UrlKey(0) \notin Attempted(inflight)
  /\ ThumbKey(0) \in loadingStatus

\* C29 (as claimed): right after a run of the effect on a non-empty
\* collection, every key of the window of either tier is loaded or loading.
C29_DesiredKeysPresent ==
  [][(ReconcileStep /\ pLen > 0) =>
       \A u \in ImageUrls(pIndex', pDir') \cup ThumbnailUrls(pIndex', pDir') :
         u \in imageCache' \/ u \in loadingStatus']_vars

\* The load or error event of a cancelled attempt is delivered
StaleCompletion ==
  /\ lastOp' \in {"stale_load", "stale_error"}
  /\ inflight' # inflight
  /\ reconciles' = reconciles

\* C31: the load or error event of a cancelled attempt changes no entry: a
\* newer attempt for the same key stays loading with its cancel function
\* registered and in flight, and the key does not enter imageCache.
C31_StaleCompletionChangesNothing ==
  [][StaleCompletion =>
       /\ UNCHANGED <<imageCache, loadingStatus, abortControllers>>
       /\ Attempted(inflight') = Attempted(inflight)
       /\ \E a \in inflight : a.cancelled /\ inflight' = inflight \ {a}]_vars

C31_Witness ==
  /\ lastOp \in {"stale_load", "stale_error"}
  /\ pLen = 2
  /\ pBuf = 0
  /\ pIndex = 0
  /\ reconciles = 3
  /\ imageCache = {}
  /\ UrlKey(0) \in loadingStatus
  /\ abortControllers[UrlKey(0)] # 0
  /\ [key |-> UrlKey(0), id |-> abortControllers[UrlKey(0)],
      cancelled |-> FALSE] \in inflight
  /\ [key |-> UrlKey(0), id |-> 0, cancelled |-> TRUE] \notin inflight
  /\ [key |-> UrlKey(1), id |-> 0, cancelled |-> TRUE] \in inflight

\* C37: isImageCached(url) never goes back to false: no step of the effect,
\* of a load or error event or of the cleanup removes a key from imageCache.
C37_ReadinessMonotone ==
  [][imageCache \subseteq imageCache']_vars

C37_Witness ==
  /\ ~mounted
  /\ lastOp = "release"
  /\ pLen = 2
  /\ pBuf = 0
  /\ pIndex = 1
  /\ reconciles >= 2
  /\ UrlKey(0) \in imageCache
  /\ UrlKey(1) \notin imageCache

\* C38: whenever localStorage holds both the manifest item and the timestamp
\* item, the two were written by the same call of saveManifestToCache, also
\* when a setItem call of a save can throw.
C38_TimestampBelongsToSnapshot ==
  (storedManifest # NoManifest /\ storedTimestamp # <<>>) => paired

C38_Witness ==
  /\ storedManifest # NoManifest
  /\ storedTimestamp # <<>>
  /\ paired
  /\ lastLoad.path = "fetch"
  /\ lastLoad.quota = "none"
  /\ lastLoad.seen.persisted # NoManifest
  /\ lastLoad.seen.age = -1
  /\ ~fetching

\* A call of getManifest() or clearCache() of the service
ServiceCall == kService # NoSource /\ kService' = kService /\ kLast' # kLast

\* C39 (as claimed): getManifest() and clearCache() of the service of one
\* source never return, overwrite or remove an item that the fetch of a
\* different source (another endpoint or another bucket) wrote.
C39_SourcesIsolated ==
  [][ServiceCall =>
       /\ kLast'.got \in {NoSource, kService}
       /\ \A k \in StorageKeys :
            kItems[k] \notin {NoSource, kService} => kItems'[k] = kItems[k]]_vars

\* nextPhoto() or prevPhoto() is called
StepCall == timers' = Append(timers, "keyboard")

JumpedFrom == sortedPhotos[prevIndex + 1]

\* C35 (as claimed): jumpToYear called with the year value of the current
\* photo, year + (month - 1)/12, selects a photo of the same year and month.
C35_RoundTrip ==
  (Jumped /\ MonthsPerYear * yearValue.coarse + yearValue.k
               = PhotoYearValue(JumpedFrom)) =>
    /\ JumpedTo.year = JumpedFrom.year
    /\ JumpedTo.month = JumpedFrom.month

C32_ReactiveUpdatesSettle ==
  <>[][~CallStep]_vars => <>[][UNCHANGED <<currentIndex, currentYear>>]_vars

C32_Witness ==
  /\ explicit.call = "select"
  /\ explicit.pos = 1
  /\ currentIndex = 1
  /\ Len(photos) = 2
  /\ photos[1].year # photos[2].year
  /\ currentYear = PhotoYearValue(photos[2])
  /\ Settled
  /\ timers = <<>>
  /\ navigationSource = "null"

====
